------------------------------ MODULE Spec2Model ------------------------------
(***************************************************************************)
(* The conversion pipeline of app.py (English -> Telangana-style Tenglish) *)
(* as a state machine: one conversion request runs from the widgets'       *)
(* values through convert_to_tenglish, one action per pipeline stage.      *)
(*                                                                         *)
(* Text is a TLA+ string; a character is a string of length 1.  Only      *)
(* ASCII text is modelled: letters, digits, "_", "-", "'", the six         *)
(* punctuation marks and the whitespace characters space, tab, newline     *)
(* and carriage return.                                                    *)
(***************************************************************************)
EXTENDS Integers, Sequences, FiniteSets, TLC

(***************************************************************************)
(* Characters and the str / re primitives the program uses.                *)
(***************************************************************************)
Char(s, i) == SubSeq(s, i, i)

CharsOf(s) == {Char(s, i) : i \in 1..Len(s)}

UPPER == "ABCDEFGHIJKLMNOPQRSTUVWXYZ"

LOWER == "abcdefghijklmnopqrstuvwxyz"

DIGITS == "0123456789"

UpperLetters == CharsOf(UPPER)

Letters == CharsOf(UPPER) \cup CharsOf(LOWER)

\* \w of the re module, on ASCII text
WordChars == Letters \cup CharsOf(DIGITS) \cup {"_"}

\* \s of the re module, and the characters str.split() and str.strip() drop
WHITESPACE == {" ", "\t", "\n", "\r"}

\* str.lower() on one character
LowerOf ==
    [c \in UpperLetters |-> Char(LOWER, CHOOSE i \in 1..Len(UPPER) : Char(UPPER, i) = c)]

\* str.upper() on one character
UpperOf ==
    [c \in CharsOf(LOWER) |-> Char(UPPER, CHOOSE i \in 1..Len(LOWER) : Char(LOWER, i) = c)]

Min(S) == CHOOSE x \in S : \A y \in S : x <= y

Max(S) == CHOOSE x \in S : \A y \in S : x >= y

\* the first position from i on whose character is in C; Len(s) + 1 if there is none
Find(s, C, i) ==
    LET hits == {j \in i..Len(s) : Char(s, j) \in C}
    IN  IF hits = {} THEN Len(s) + 1 ELSE Min(hits)

\* the first position from i on whose character is not in C; Len(s) + 1 if there is none
FindNot(s, C, i) ==
    LET hits == {j \in i..Len(s) : Char(s, j) \notin C}
    IN  IF hits = {} THEN Len(s) + 1 ELSE Min(hits)

\* the last position whose character is not in C; 0 if there is none
FindLastNot(s, C) ==
    LET hits == {j \in 1..Len(s) : Char(s, j) \notin C}
    IN  IF hits = {} THEN 0 ELSE Max(hits)

RECURSIVE LowerFrom(_, _)
\* s from position i on, lowercased: from one uppercase letter to the next
LowerFrom(s, i) ==
    LET p == Find(s, UpperLetters, i)
    IN  IF p > Len(s) THEN SubSeq(s, i, Len(s))
        ELSE SubSeq(s, i, p - 1) \o LowerOf[Char(s, p)] \o LowerFrom(s, p + 1)

\* str.lower()
lower(s) == LowerFrom(s, 1)

\* str.isupper() on one character
isupper(c) == c \in UpperLetters

\* str.upper() on one character
upper(c) == IF c \in DOMAIN UpperOf THEN UpperOf[c] ELSE c

\* str.strip()
strip(s) == SubSeq(s, FindNot(s, WHITESPACE, 1), FindLastNot(s, WHITESPACE))

\* str.split() with no argument: the maximal runs of non-whitespace, in order
split(s) ==
    LET starts == {i \in 1..Len(s) :
                      Char(s, i) \notin WHITESPACE /\ (i = 1 \/ Char(s, i - 1) \in WHITESPACE)}
        nth(k) == CHOOSE i \in starts : Cardinality({j \in starts : j < i}) = k - 1
    IN  [k \in 1..Cardinality(starts) |-> SubSeq(s, nth(k), Find(s, WHITESPACE, nth(k)) - 1)]

RECURSIVE JoinFrom(_, _, _)
JoinFrom(sep, seq, i) ==
    IF i > Len(seq) THEN ""
    ELSE (IF i = 1 THEN "" ELSE sep) \o seq[i] \o JoinFrom(sep, seq, i + 1)

\* sep.join(seq)
join(sep, seq) == JoinFrom(sep, seq, 1)

endswith(s, suf) ==
    Len(s) >= Len(suf) /\ SubSeq(s, Len(s) - Len(suf) + 1, Len(s)) = suf

\* c in s, for a character c
Contains(s, c) == c \in CharsOf(s)

RECURSIVE ExpandFrom(_, _, _)
\* The re module's expansion of a replacement template: "\\" followed by "1" is
\* the text of group 1, "\\" followed by "\\" is one backslash.
ExpandFrom(tmpl, g1, i) ==
    IF i > Len(tmpl) THEN ""
    ELSE IF Char(tmpl, i) = "\\" /\ i < Len(tmpl)
    THEN (IF Char(tmpl, i + 1) = "1" THEN g1 ELSE Char(tmpl, i + 1))
         \o ExpandFrom(tmpl, g1, i + 2)
    ELSE Char(tmpl, i) \o ExpandFrom(tmpl, g1, i + 1)

ExpandTemplate(tmpl, g1) == ExpandFrom(tmpl, g1, 1)

IsWordAt(s, i) == i >= 1 /\ i <= Len(s) /\ Char(s, i) \in WordChars

\* \b between the characters at i - 1 and i
WordBoundary(s, i) == IsWordAt(s, i - 1) # IsWordAt(s, i)

\* r"\b" + re.escape(pat) + r"\b" matches s at position i
MatchesAt(pat, s, i) ==
    /\ i + Len(pat) - 1 <= Len(s)
    /\ WordBoundary(s, i)
    /\ WordBoundary(s, i + Len(pat))
    /\ SubSeq(s, i, i + Len(pat) - 1) = pat

\* where a run of word characters starts, and where one ends
WordStarts(s) == {i \in 1..Len(s) : IsWordAt(s, i) /\ ~IsWordAt(s, i - 1)}

WordEnds(s) == {i \in 1..Len(s) : IsWordAt(s, i) /\ ~IsWordAt(s, i + 1)}

\* The texts r"\b" + pat + r"\b" can match in s, for a pat that starts and ends
\* with a word character (as every pattern of the program does): what stands
\* between the start of a run of word characters and the end of one.
WordSpans(s) ==
    UNION {{SubSeq(s, a, b) : b \in {e \in WordEnds(s) : e >= a}} : a \in WordStarts(s)}

\* re.search(r"\b" + pat + r"\b", s) is not None
HasMatch(pat, s) == pat \in WordSpans(s)

RECURSIVE SubFrom(_, _, _, _, _)
\* s from position i on with every match replaced, leftmost first and not
\* overlapping; m is the text the pattern is matched against: s, or lower(s)
\* under re.IGNORECASE
SubFrom(pat, rep, s, m, i) ==
    LET hits == {j \in WordStarts(m) : j >= i /\ MatchesAt(pat, m, j)}
    IN  IF hits = {} THEN SubSeq(s, i, Len(s))
        ELSE SubSeq(s, i, Min(hits) - 1) \o rep
             \o SubFrom(pat, rep, s, m, Min(hits) + Len(pat))

\* re.sub(r"\b" + pat + r"\b", rep, s)
sub_word(pat, rep, s) == IF HasMatch(pat, s) THEN SubFrom(pat, rep, s, s, 1) ELSE s

RECURSIVE SubEachFrom(_, _, _)
\* for pat, rep in rules[i:]: s = re.sub(r"\b" + pat + r"\b", rep, s, flags=re.IGNORECASE)
\* where every pat is in lowercase.  A rule that matches nowhere leaves s as it
\* is, so the loop is followed from one matching rule to the next.
SubEachFrom(rules, s, i) ==
    LET m     == lower(s)
        spans == WordSpans(m)
        hits  == {j \in i..Len(rules) : rules[j][1] \in spans}
    IN  IF hits = {} THEN s
        ELSE SubEachFrom(rules,
                         SubFrom(rules[Min(hits)][1], rules[Min(hits)][2], s, m, 1),
                         Min(hits) + 1)

\* re.search(r"\b(a|b|...)\b", s) is not None, for the alternatives alts
search_word(alts, s) == alts \cap WordSpans(s) # {}

(***************************************************************************)
(* Regex helpers (app.py lines 42-61).                                     *)
(***************************************************************************)
\* the character class of PUNCT_RE
PUNCT == {".", "!", "?", ",", ";", ":"}

\* the replacement template handed to PUNCT_RE.sub in tokenize: the Python raw
\* string r" \\1 ", that is: space, backslash, backslash, "1", space
TOKENIZE_TEMPLATE == " \\\\1 "

\* the replacement template of the final clean-up: the Python raw string r"\1"
CLEAN_TEMPLATE == "\\1"

RECURSIVE CollapseFrom(_, _)
\* re.sub(r"\s+", " ", s), from position i on
CollapseFrom(s, i) ==
    LET p == Find(s, WHITESPACE, i)
    IN  IF p > Len(s) THEN SubSeq(s, i, Len(s))
        ELSE SubSeq(s, i, p - 1) \o " " \o CollapseFrom(s, FindNot(s, WHITESPACE, p))

normalize_spaces(s) == strip(CollapseFrom(s, 1))

RECURSIVE PunctSubFrom(_, _, _)
\* PUNCT_RE.sub(tmpl, s), from position i on: every punctuation mark is group 1
\* of its own match
PunctSubFrom(tmpl, s, i) ==
    LET p == Find(s, PUNCT, i)
    IN  IF p > Len(s) THEN SubSeq(s, i, Len(s))
        ELSE SubSeq(s, i, p - 1) \o ExpandTemplate(tmpl, Char(s, p))
             \o PunctSubFrom(tmpl, s, p + 1)

\* [p for p in seq if p.strip()]
NonBlank(seq) == SelectSeq(seq, LAMBDA p : strip(p) # "")

tokenize(text) == NonBlank(split(PunctSubFrom(TOKENIZE_TEMPLATE, text, 1)))

\* WORD_RE = ^[a-zA-Z']+$
is_word(tok) == tok # "" /\ CharsOf(tok) \subseteq (Letters \cup {"'"})

english_plural_to_singular(word) ==
    IF endswith(word, "ies") /\ Len(word) > 3
    THEN SubSeq(word, 1, Len(word) - 3) \o "y"
    ELSE IF endswith(word, "s") /\ Len(word) > 3 /\ ~endswith(word, "ss")
    THEN SubSeq(word, 1, Len(word) - 1)
    ELSE word

(***************************************************************************)
(* Phrase rules (app.py lines 66-88): <<phrase, replacement>>, the pattern *)
(* of a rule being r"\b" + phrase + r"\b".                                 *)
(***************************************************************************)
PHRASES ==
  <<
    <<"thanks a lot", "chala thanks">>, <<"thank you", "chala thanks">>,
    <<"thank u", "chala thanks">>, <<"thanks", "thanks">>,
    <<"good morning", "good morning">>, <<"good night", "good night">>,
    <<"i love you", "nenu ninnu premistunna">>,
    <<"i miss you", "nenu ninnu miss avtunna">>, <<"what are you doing", "em chestunnav">>,
    <<"what is this", "idi enti">>, <<"how are you", "ela unnav">>,
    <<"i am fine", "bagunna">>, <<"i am sorry", "sorry ra">>, <<"excuse me", "excuse me">>,
    <<"please", "please">>
  >>

\* lines 84-88
apply_phrase_rules(text) == SubEachFrom(PHRASES, lower(text), 1)

(***************************************************************************)
(* The built-in dictionary (app.py lines 94-283).  A Python dict is a      *)
(* sequence of <<key, value>> pairs in insertion order, keys unique.       *)
(***************************************************************************)
\* The dict a sequence of assignments d[k] = v builds: a key stands where it
\* was first assigned and holds the value it was last assigned.
FirstAt(kvs, i) == \A j \in 1..(i - 1) : kvs[j][1] # kvs[i][1]

LastValue(kvs, k) ==
    kvs[CHOOSE i \in DOMAIN kvs :
            kvs[i][1] = k /\ \A j \in (i + 1)..Len(kvs) : kvs[j][1] # k][2]

DictOf(kvs) ==
    LET first == SelectSeq([i \in DOMAIN kvs |-> i], LAMBDA i : FirstAt(kvs, i))
    IN  [n \in DOMAIN first |-> <<kvs[first[n]][1], LastValue(kvs, kvs[first[n]][1])>>]

base ==
  <<
    <<"i", "nenu">>, <<"me", "nannu">>, <<"my", "naa">>, <<"mine", "naadi">>,
    <<"you", "nuvvu">>, <<"your", "nee">>, <<"yours", "needi">>, <<"he", "vaadu">>,
    <<"him", "vaadini">>, <<"his", "vaadi">>, <<"she", "aame">>, <<"her", "aameni">>,
    <<"hers", "aame di">>, <<"we", "manam">>, <<"us", "manalni">>, <<"our", "maa">>,
    <<"they", "vaallu">>, <<"them", "vaallani">>, <<"their", "vaalla">>, <<"am", "unna">>,
    <<"is", "undi">>, <<"are", "unnaru">>, <<"was", "unde">>, <<"were", "unnaru">>,
    <<"be", "undu">>, <<"and", "inka">>, <<"but", "kani">>, <<"because", "endukante">>,
    <<"so", "andukani">>, <<"then", "appudu">>, <<"to", "ki">>, <<"in", "lo">>,
    <<"with", "tho">>, <<"on", "meeda">>, <<"at", "daggara">>, <<"from", "nundi">>,
    <<"for", "kosam">>, <<"about", "gurinchi">>, <<"before", "mundhu">>,
    <<"after", "tarvata">>, <<"go", "ellu">>, <<"come", "ra">>, <<"do", "chey">>,
    <<"eat", "tinu">>, <<"drink", "taagu">>, <<"sleep", "nidra">>, <<"work", "pani">>,
    <<"study", "chaduvu">>, <<"wait", "agu">>, <<"stop", "aapu">>, <<"start", "start">>,
    <<"see", "choodu">>, <<"watch", "choodu">>, <<"look", "choodu">>, <<"say", "cheppu">>,
    <<"tell", "cheppu">>, <<"give", "ivvu">>, <<"take", "teesko">>, <<"help", "help">>,
    <<"what", "em">>, <<"why", "enduku">>, <<"how", "ela">>, <<"where", "ekkada">>,
    <<"when", "eppudu">>, <<"who", "evaru">>, <<"which", "edi">>, <<"now", "ippudu">>,
    <<"today", "ivala">>, <<"tomorrow", "repu">>, <<"yesterday", "ninna">>,
    <<"later", "tarvata">>, <<"always", "eppudu">>, <<"never", "eppudu kaadu">>,
    <<"good", "bagundi">>, <<"bad", "baaledu">>, <<"fine", "bagundi">>,
    <<"very", "chala">>, <<"ok", "sare">>, <<"okay", "sare">>, <<"yes", "avunu">>,
    <<"no", "ledu">>, <<"bro", "bro">>, <<"dude", "bro">>, <<"friend", "friend">>,
    <<"thanks", "thanks">>, <<"sorry", "sorry">>, <<"please", "please">>,
    <<"hello", "hello">>, <<"hi", "hi">>, <<"bye", "bye">>, <<"late", "late">>,
    <<"fast", "fast">>, <<"slow", "slow">>
  >>

fixed_phrases ==
  <<
    <<"i am", "nenu unna">>, <<"i'm", "nenu">>, <<"you are", "nuvvu">>,
    <<"you're", "nuvvu">>, <<"what are you doing", "em chestunnav">>,
    <<"what are u doing", "em chestunnav">>, <<"how are you", "ela unnav">>
  >>

keep_nouns ==
  <<
    "office", "meeting", "college", "class", "project", "assignment", "deadline", "phone",
    "mobile", "laptop", "wifi", "internet", "email", "app", "gym", "workout", "diet",
    "protein", "training", "practice", "youtube", "instagram", "whatsapp", "google", "bus",
    "train", "bike", "car", "home", "room", "food", "water", "money", "time", "gate",
    "iit", "eldermate", "raspberry", "pi"
  >>

verb_bank ==
  <<
    [v |-> "go", v1 |-> "ellu", ing |-> "veltunna", ed |-> "vellaa", will |-> "velta"],
    [v |-> "come", v1 |-> "ra", ing |-> "vastunna", ed |-> "vachaa", will |-> "vasta"],
    [v |-> "do", v1 |-> "chey", ing |-> "chestunna", ed |-> "chesaa", will |-> "chestaa"],
    [v |-> "eat", v1 |-> "tinu", ing |-> "tintunna", ed |-> "tinna", will |-> "tintaa"],
    [v |-> "drink", v1 |-> "taagu", ing |-> "taagutunna", ed |-> "taaga", will |-> "taagtaa"],
    [v |-> "sleep", v1 |-> "nidra", ing |-> "nidra potunna", ed |-> "nidra poya", will |-> "nidra potaa"],
    [v |-> "study", v1 |-> "chaduvu", ing |-> "chaduvutunna", ed |-> "chadivaa", will |-> "chaduvutaa"],
    [v |-> "work", v1 |-> "pani", ing |-> "panichestunna", ed |-> "pani chesaa", will |-> "panichestaa"],
    [v |-> "wait", v1 |-> "agu", ing |-> "agutunna", ed |-> "agaa", will |-> "aguta"],
    [v |-> "stop", v1 |-> "aapu", ing |-> "aapestunna", ed |-> "aapesaa", will |-> "aapestaa"],
    [v |-> "see", v1 |-> "choodu", ing |-> "chustunna", ed |-> "chusaa", will |-> "chustaa"],
    [v |-> "watch", v1 |-> "choodu", ing |-> "chustunna", ed |-> "chusaa", will |-> "chustaa"],
    [v |-> "tell", v1 |-> "cheppu", ing |-> "cheptunna", ed |-> "cheppaa", will |-> "cheptaa"],
    [v |-> "say", v1 |-> "cheppu", ing |-> "cheptunna", ed |-> "cheppaa", will |-> "cheptaa"],
    [v |-> "give", v1 |-> "ivvu", ing |-> "istunna", ed |-> "ichaa", will |-> "istaa"],
    [v |-> "take", v1 |-> "teesko", ing |-> "teesukuntunna", ed |-> "teeskunna", will |-> "teeskuntaa"],
    [v |-> "help", v1 |-> "help", ing |-> "help chestunna", ed |-> "help chesaa", will |-> "help chestaa"]
  >>

\* the assignments of one turn of the loop over verb_bank, in order
VerbEntries(f) ==
    << <<f.v, f.v1>>,
       <<f.v \o "ing", f.ing>>,
       <<IF endswith(f.v, "e") THEN SubSeq(f.v, 1, Len(f.v) - 1) \o "ing" ELSE f.v \o "ing",
         f.ing>>,
       <<f.v \o "ed", f.ed>> >>
    \o (IF f.v = "go" THEN << <<"went", f.ed>> >>
        ELSE IF f.v = "eat" THEN << <<"ate", f.ed>> >>
        ELSE IF f.v = "drink" THEN << <<"drank", f.ed>> >>
        ELSE IF f.v = "sleep" THEN << <<"slept", f.ed>> >>
        ELSE IF f.v = "take" THEN << <<"took", f.ed>> >>
        ELSE IF f.v = "come" THEN << <<"came", f.ed>> >>
        ELSE IF f.v = "do" THEN << <<"did", f.ed>> >>
        ELSE <<>>)
    \o << <<"will " \o f.v, f.will>>,
          <<"can " \o f.v, f.v1 \o " galanu">>,
          <<"cannot " \o f.v, f.v1 \o " ledu">>,
          <<"can't " \o f.v, f.v1 \o " ledu">>,
          <<"want to " \o f.v, f.v1 \o " kavali">>,
          <<"need to " \o f.v, f.v1 \o " kavali">>,
          <<"have to " \o f.v, f.v1 \o " kavali">>,
          <<"must " \o f.v, f.v1 \o " tappadu">>,
          <<"please " \o f.v, "please " \o f.v1>> >>

RECURSIVE VerbsFrom(_)
\* the assignments of the loop over verb_bank from its i-th entry on
VerbsFrom(i) ==
    IF i > Len(verb_bank) THEN <<>> ELSE VerbEntries(verb_bank[i]) \o VerbsFrom(i + 1)

build_tenglish_dictionary ==
    DictOf(base
           \o fixed_phrases
           \o [i \in DOMAIN keep_nouns |-> <<keep_nouns[i], keep_nouns[i]>>]
           \o VerbsFrom(1))

\* W = build_tenglish_dictionary() (line 455), the word_dict of every call
W == build_tenglish_dictionary

\* word_dict.keys() as a set, and word_dict as a lookup
dict_keys == {W[i][1] : i \in DOMAIN W}

word_dict == [k \in dict_keys |-> LastValue(W, k)]



KEEP_ENGLISH_DEFAULT ==
  {
    "app", "assignment", "bike", "bus", "camera", "car", "class", "college", "deadline",
    "diet", "eldermate", "email", "gate", "google", "gym", "iit", "instagram", "internet",
    "laptop", "meeting", "mobile", "office", "phone", "pi", "practice", "project",
    "protein", "raspberry", "robot", "train", "training", "whatsapp", "wifi", "workout",
    "youtube"
  }


(***************************************************************************)
(* convert_to_tenglish (app.py lines 298-404), stage by stage.             *)
(***************************************************************************)
to_title_like(original, converted) ==
    IF original = "" THEN converted
    ELSE IF isupper(Head(original)) /\ converted # ""
    THEN upper(Head(converted)) \o Tail(converted)
    ELSE converted

\* the early return forgets strip(): only the empty text returns early
is_blank_unstripped(text) == text = ""

\* not text.strip(): the early return of line 316
is_blank(text) == strip(text) = ""

\* lines 327-333
glue_set ==
  {
    "i", "you", "me", "my", "your", "is", "am", "are", "was", "were", "no", "yes", "now",
    "today", "tomorrow", "yesterday", "what", "why", "how", "where", "when", "who", "and",
    "but", "because", "so", "then", "please", "sorry", "very", "to", "in", "with", "on",
    "at", "from", "for", "about", "before", "after"
  }

\* the translation threshold of line 355
STRENGTH_THRESHOLD == 35

\* the word limit of a "casual short statement", line 392
SHORT_STATEMENT_WORDS == 7

\* the strength is not consulted: every dictionary word is translated
translate_ungated(telugu_strength, w, w_s) == TRUE

\* line 355: translate = True if telugu_strength >= 35 else (w in glue_set or w_s in glue_set)
translate(telugu_strength, w, w_s) ==
    IF telugu_strength >= STRENGTH_THRESHOLD THEN TRUE
    ELSE (w \in glue_set \/ w_s \in glue_set)

\* one turn of the loop of lines 335-363: what is appended to out for tok
translate_token(tok, telugu_strength, keep_english_nouns, keep_english_set) ==
    IF ~is_word(tok) THEN tok
    ELSE LET orig == tok
             w    == lower(tok)
             w_s  == english_plural_to_singular(w)
             in_dict == (w \in dict_keys) \/ (w_s \in dict_keys)
             \* word_dict.get(w, word_dict.get(w_s, w))
             rep  == IF w \in dict_keys THEN word_dict[w]
                     ELSE IF w_s \in dict_keys THEN word_dict[w_s]
                     ELSE w
         IN  IF keep_english_nouns /\ (w \in keep_english_set \/ w_s \in keep_english_set)
             THEN w
             ELSE IF in_dict
             THEN (IF translate(telugu_strength, w, w_s)
                   THEN to_title_like(orig, rep)
                   ELSE w)
             ELSE w

translate_tokens(tokens, telugu_strength, keep_english_nouns, keep_english_set) ==
    [i \in 1..Len(tokens) |->
        translate_token(tokens[i], telugu_strength, keep_english_nouns, keep_english_set)]

\* the keys of d that hold a space and are n characters long, in d's order
OfLength(d, n) ==
    SelectSeq([i \in DOMAIN d |-> d[i][1]], LAMBDA k : Len(k) = n /\ Contains(k, " "))

RECURSIVE LongestFirst(_, _)
LongestFirst(d, n) == IF n < 1 THEN <<>> ELSE OfLength(d, n) \o LongestFirst(d, n - 1)

MaxKeyLen(d) == CHOOSE n \in {Len(d[i][1]) : i \in DOMAIN d} :
                    \A j \in DOMAIN d : Len(d[j][1]) <= n

\* line 371: sorted([k for k in word_dict.keys() if " " in k], key=len, reverse=True);
\* the sort is stable, so keys of one length stay in insertion order
keys == LongestFirst(W, MaxKeyLen(W))

\* the (pattern, replacement) pairs of the loop of lines 372-375
key_rules == [i \in DOMAIN keys |-> <<keys[i], word_dict[keys[i]]>>]

\* lines 371-375
multiword(result) == SubEachFrom(key_rules, result, 1)

\* lines 378-381
postpositions(add_postpositions, result) ==
    IF add_postpositions
    THEN sub_word("with", "tho", sub_word("in", "lo", sub_word("to", "ki", result)))
    ELSE result

RECURSIVE ReplaceFrom(_, _, _, _)
\* s.replace(c, new) for a character c, from position i on
ReplaceFrom(s, c, new, i) ==
    LET p == Find(s, {c}, i)
    IN  IF p > Len(s) THEN SubSeq(s, i, Len(s))
        ELSE SubSeq(s, i, p - 1) \o new \o ReplaceFrom(s, c, new, p + 1)

\* the statement branch reuses the question branch's pattern, so a "bro"
\* keeps " ra" from being appended
slang_bro_blocks(add_telangana_slang, result) ==
    IF ~add_telangana_slang THEN result
    ELSE IF Contains(result, "?")
    THEN (IF ~search_word({"ra", "rey", "bro"}, result)
          THEN ReplaceFrom(result, "?", " ra?", 1)
          ELSE result)
    ELSE (IF Len(split(result)) <= SHORT_STATEMENT_WORDS
             /\ ~search_word({"ra", "rey", "bro"}, result)
          THEN result \o " ra"
          ELSE result)

\* lines 384-393
slang(add_telangana_slang, result) ==
    IF ~add_telangana_slang THEN result
    ELSE IF Contains(result, "?")
    THEN (IF ~search_word({"ra", "rey", "bro"}, result)
          THEN ReplaceFrom(result, "?", " ra?", 1)
          ELSE result)
    ELSE (IF Len(split(result)) <= SHORT_STATEMENT_WORDS /\ ~search_word({"ra", "rey"}, result)
          THEN result \o " ra"
          ELSE result)

\* re.search(r"[a-zA-Z']\s*$", s) is not None
ends_with_letter(s) ==
    LET e == FindLastNot(s, WHITESPACE) IN e >= 1 /\ Char(s, e) \in (Letters \cup {"'"})

\* lines 396-398
polite(polite_mode, result) ==
    IF polite_mode /\ ends_with_letter(result) THEN strip(result) \o " andi" ELSE result

RECURSIVE CleanFrom(_, _, _)
\* re.sub(r"\s+([.!?,;:])", tmpl, s), from position i on: a match starts at the
\* first whitespace character whose run of whitespace ends at a punctuation mark
CleanFrom(tmpl, s, i) ==
    LET hits == {j \in i..Len(s) :
                    /\ Char(s, j) \in WHITESPACE
                    /\ FindNot(s, WHITESPACE, j) <= Len(s)
                    /\ Char(s, FindNot(s, WHITESPACE, j)) \in PUNCT}
    IN  IF hits = {} THEN SubSeq(s, i, Len(s))
        ELSE LET e == FindNot(s, WHITESPACE, Min(hits))
             IN  SubSeq(s, i, Min(hits) - 1) \o ExpandTemplate(tmpl, Char(s, e))
                 \o CleanFrom(tmpl, s, e + 1)

\* lines 401-402
clean(result) == normalize_spaces(CleanFrom(CLEAN_TEMPLATE, result, 1))

\* the result of lines 320-381: the text the slang step is applied to
styled(text, telugu_strength, keep_english_nouns, add_postpositions, keep_english_set) ==
    postpositions(add_postpositions,
        multiword(join(" ", translate_tokens(tokenize(apply_phrase_rules(text)),
                                telugu_strength, keep_english_nouns, keep_english_set))))

\* lines 306-404, whole
convert_to_tenglish(text, telugu_strength, keep_english_nouns, polite_mode, add_postpositions, add_telangana_slang, keep_english_set) ==
    IF is_blank(text) THEN ""
    ELSE clean(polite(polite_mode, slang(add_telangana_slang,
             styled(text, telugu_strength, keep_english_nouns, add_postpositions,
                    keep_english_set))))

(***************************************************************************)
(* The keep-English set the caller composes (app.py lines 443-452).        *)
(***************************************************************************)
RECURSIVE SplitOnFrom(_, _, _, _)
\* s.split(c): the pieces between the occurrences of c, empty ones included
SplitOnFrom(s, c, i, start) ==
    IF i > Len(s) THEN <<SubSeq(s, start, Len(s))>>
    ELSE IF Char(s, i) = c
    THEN <<SubSeq(s, start, i - 1)>> \o SplitOnFrom(s, c, i + 1, i + 1)
    ELSE SplitOnFrom(s, c, i + 1, start)

compose_keep_english_set(custom_keep) ==
    LET pieces == SplitOnFrom(custom_keep, ",", 1, 1)
    IN  KEEP_ENGLISH_DEFAULT
        \cup ({lower(strip(pieces[i])) : i \in DOMAIN pieces} \ {""})

\* the initial value of the "Always keep these English" field, line 445
DEFAULT_CUSTOM_KEEP == "ElderMate, Raspberry Pi, GATE, IIT"

\* the initial value of the strength slider, line 428
DEFAULT_STRENGTH == 65

(***************************************************************************)
(* One conversion request.  The widgets hold the caller's inputs (lines    *)
(* 419-446); pressing the button composes the keep-English set and runs    *)
(* convert_to_tenglish, whose locals are t, tokens, out and result.        *)
(***************************************************************************)
VARIABLES
    pc,                   \* the stage the request is at
    text,                 \* the text area's content, the text argument
    telugu_strength,      \* the slider
    keep_english_nouns,   \* the four toggles
    polite_mode,
    add_postpositions,
    add_telangana_slang,
    custom_keep,          \* the "Always keep these English" field
    keep_english_set,
    t,                    \* the text after the phrase rules
    tokens,
    out,
    result

vars ==
    <<pc, text, telugu_strength, keep_english_nouns, polite_mode, add_postpositions,
      add_telangana_slang, custom_keep, keep_english_set, t, tokens, out, result>>

inputs ==
    <<text, telugu_strength, keep_english_nouns, polite_mode, add_postpositions,
      add_telangana_slang, custom_keep>>

\* ---- the inputs the model draws from ----

\* the longest whitespace-only text
MaxBlank == 2

\* the most words of a generated sentence
MaxWords == 2

\* the most words of a generated statement of the slang specification
MaxStatementWords == 3

RECURSIVE Strings(_, _)
\* the texts of at most n characters of C
Strings(C, n) ==
    IF n = 0 THEN {""}
    ELSE LET shorter == Strings(C, n - 1)
         IN  shorter \cup {s \o c : s \in shorter, c \in C}

RECURSIVE Sentences(_, _)
\* the texts of 1 to n words of V, one space between two words
Sentences(V, n) ==
    IF n = 0 THEN {}
    ELSE LET shorter == Sentences(V, n - 1)
         IN  V \cup {s \o " " \o w : s \in shorter, w \in V}

Blanks == Strings({" ", "\t", "\n"}, MaxBlank)

\* the text area's initial value (line 419) and the inputs of the examples the
\* page lists (lines 475-481)
Examples ==
    { "Thank you. What are you doing today bro? I am going to office now.",
      "I am going to office now",
      "What are you doing bro?",
      "I will come tomorrow",
      "Thanks a lot",
      "We have a meeting today" }

\* the phrase of every phrase rule
PhraseInputs == {PHRASES[i][1] : i \in DOMAIN PHRASES}

\* a modal, a verb whose root form is "ra", a glue word that is a postposition,
\* a word whose singular form only is in the glue set, a hyphenated question
Vocab == {"will", "come", "to", "yours", "check-in?"}

\* a verb whose root form is "ra", a word with a punctuation mark inside, a
\* word the dictionary leaves as it is
StatementVocab == {"come", "yes,no", "bro"}

Texts == Blanks \cup Examples \cup PhraseInputs \cup Sentences(Vocab, MaxWords)

StatementTexts == Blanks \cup Sentences(StatementVocab, MaxStatementWords)

\* the slider runs from 0 to 100 (line 428)
Strengths == {0, STRENGTH_THRESHOLD - 1, STRENGTH_THRESHOLD, DEFAULT_STRENGTH, 100}

CustomKeeps == {DEFAULT_CUSTOM_KEEP, "To, come"}

InitWith(texts) ==
    /\ pc = "ui"
    /\ text \in texts
    /\ telugu_strength \in Strengths
    /\ keep_english_nouns \in BOOLEAN
    /\ polite_mode \in BOOLEAN
    /\ add_postpositions \in BOOLEAN
    /\ add_telangana_slang \in BOOLEAN
    /\ custom_keep \in CustomKeeps
    /\ keep_english_set = {}
    /\ t = ""
    /\ tokens = <<>>
    /\ out = <<>>
    /\ result = ""

Init == InitWith(Texts)

InitStatements == InitWith(StatementTexts)

\* lines 448-452 and the call of line 461
Press ==
    /\ pc = "ui"
    /\ keep_english_set' = compose_keep_english_set(custom_keep)
    /\ pc' = "enter"
    /\ UNCHANGED <<inputs, t, tokens, out, result>>

\* lines 316-317
Enter ==
    /\ pc = "enter"
    /\ IF is_blank(text)
       THEN result' = "" /\ pc' = "done"
       ELSE result' = result /\ pc' = "phrases"
    /\ UNCHANGED <<inputs, keep_english_set, t, tokens, out>>

\* line 320
PhraseLevel ==
    /\ pc = "phrases"
    /\ t' = apply_phrase_rules(text)
    /\ pc' = "tokenize"
    /\ UNCHANGED <<inputs, keep_english_set, tokens, out, result>>

\* lines 322-323
Tokenize ==
    /\ pc = "tokenize"
    /\ tokens' = tokenize(t)
    /\ out' = <<>>
    /\ pc' = "translate"
    /\ UNCHANGED <<inputs, keep_english_set, t, result>>

\* the loop of lines 335-363
TranslateTokens ==
    /\ pc = "translate"
    /\ out' = translate_tokens(tokens, telugu_strength, keep_english_nouns, keep_english_set)
    /\ pc' = "join"
    /\ UNCHANGED <<inputs, keep_english_set, t, tokens, result>>

\* line 365
Join ==
    /\ pc = "join"
    /\ result' = join(" ", out)
    /\ pc' = "multiword"
    /\ UNCHANGED <<inputs, keep_english_set, t, tokens, out>>

\* lines 371-375
Multiword ==
    /\ pc = "multiword"
    /\ result' = multiword(result)
    /\ pc' = "postpositions"
    /\ UNCHANGED <<inputs, keep_english_set, t, tokens, out>>

\* lines 378-381
Postpositions ==
    /\ pc = "postpositions"
    /\ result' = postpositions(add_postpositions, result)
    /\ pc' = "slang"
    /\ UNCHANGED <<inputs, keep_english_set, t, tokens, out>>

\* lines 384-393
Slang ==
    /\ pc = "slang"
    /\ result' = slang(add_telangana_slang, result)
    /\ pc' = "polite"
    /\ UNCHANGED <<inputs, keep_english_set, t, tokens, out>>

\* lines 396-398
Polite ==
    /\ pc = "polite"
    /\ result' = polite(polite_mode, result)
    /\ pc' = "clean"
    /\ UNCHANGED <<inputs, keep_english_set, t, tokens, out>>

\* lines 401-404
Clean ==
    /\ pc = "clean"
    /\ result' = clean(result)
    /\ pc' = "done"
    /\ UNCHANGED <<inputs, keep_english_set, t, tokens, out>>

Next ==
    \/ Press
    \/ Enter
    \/ PhraseLevel
    \/ Tokenize
    \/ TranslateTokens
    \/ Join
    \/ Multiword
    \/ Postpositions
    \/ Slang
    \/ Polite
    \/ Clean

Spec == Init /\ [][Next]_vars

\* the same program on statements of up to MaxStatementWords words
SpecStatements == InitStatements /\ [][Next]_vars

(***************************************************************************)
(* What the properties speak of.                                           *)
(***************************************************************************)
\* the characters of s, in order
chars(s) == [i \in 1..Len(s) |-> Char(s, i)]

\* the punctuation marks of s, in order
punctuation(s) == SelectSeq(chars(s), LAMBDA c : c \in PUNCT)

\* the word tokens of an input text
input_words(s) == {w \in {tokenize(s)[i] : i \in DOMAIN tokenize(s)} : is_word(w)}

\* how often the text piece stands in s
occurrences(piece, s) ==
    Cardinality({i \in 1..(Len(s) - Len(piece) + 1) : SubSeq(s, i, i + Len(piece) - 1) = piece})

\* the request is past the token translator: out holds one entry per token
translated == pc \in {"join", "multiword", "postpositions", "slang", "polite", "clean"}

\* the controls as the page first shows them (lines 428-446)
default_config ==
    /\ telugu_strength = DEFAULT_STRENGTH
    /\ keep_english_nouns
    /\ add_postpositions
    /\ ~add_telangana_slang
    /\ ~polite_mode
    /\ custom_keep = DEFAULT_CUSTOM_KEEP

\* the text the slang step of this request is applied to
styled_text ==
    styled(text, telugu_strength, keep_english_nouns, add_postpositions, keep_english_set)

\* the multiword keys the loop over verb_bank derives
verb_phrase_keys ==
    {keys[i] : i \in {j \in DOMAIN keys :
                        \E n \in DOMAIN verb_bank :
                            endswith(keys[j], " " \o verb_bank[n].v)
                            /\ \E e \in DOMAIN VerbEntries(verb_bank[n]) :
                                   VerbEntries(verb_bank[n])[e][1] = keys[j]}}

(***************************************************************************)
(* Properties.                                                             *)
(***************************************************************************)

\* C1: for every configuration and keep-English set, an empty text or a text
\* made only of whitespace converts to the empty string; no " ra" and no
\* " andi" is added to it.
C1_BlankGivesEmpty ==
    (pc = "done" /\ CharsOf(text) \subseteq WHITESPACE) => result = ""

C1_Witness ==
    /\ pc = "done"
    /\ text = " \t"
    /\ add_telangana_slang
    /\ polite_mode
    /\ result = ""

\* C2: with keep_english_nouns on, every word token of the input whose lowercase
\* form is in the keep-English set (base set and user-supplied words) stands in
\* the output as its lowercase form, whatever the later stages do.
C2_KeptWordsSurvive ==
    (pc = "done" /\ keep_english_nouns /\ ~is_blank(text)) =>
        \A w \in input_words(text) :
            lower(w) \in keep_english_set => HasMatch(lower(w), result)

\* C3 as claimed: below strength 35 every input word the dictionary covers and
\* the glue set does not hold stands in the output in English, alone or inside
\* a phrase.
C3_OnlyGlueTranslated ==
    (pc = "done" /\ telugu_strength < STRENGTH_THRESHOLD /\ ~is_blank(text)) =>
        \A w \in input_words(lower(text)) :
            (w \in dict_keys /\ w \notin glue_set) => HasMatch(w, result)

\* C3 as amended: below strength 35 the token translator changes a token only
\* if the token's lowercase form or its heuristic singular form is in the glue
\* set; every other token, dictionary-covered or not, leaves the translator as
\* its lowercase form.
C3_TranslatorOnlyGlue ==
    (translated /\ telugu_strength < STRENGTH_THRESHOLD) =>
        /\ Len(out) = Len(tokens)
        /\ \A i \in DOMAIN tokens :
               out[i] # lower(tokens[i]) =>
                   \/ lower(tokens[i]) \in glue_set
                   \/ english_plural_to_singular(lower(tokens[i])) \in glue_set

C3_Witness ==
    /\ pc = "join"
    /\ telugu_strength = 0
    /\ text = "come to"
    /\ tokens = <<"come", "to">>
    /\ out = <<"come", "ki">>

\* C4: tokenize makes of every punctuation mark of its input a token that is
\* that mark, in order, and the output holds every punctuation mark of the
\* input, in order, with no whitespace before it.
C4_PunctuationPreserved ==
    /\ (translated \/ pc = "translate") =>
           SelectSeq(tokens, LAMBDA k : ~is_word(k) /\ CharsOf(k) \cap PUNCT # {})
               = punctuation(t)
    /\ (pc = "done" /\ ~is_blank(text)) =>
           /\ punctuation(result) = punctuation(text)
           /\ \A i \in 2..Len(result) :
                  Char(result, i) \in PUNCT => Char(result, i - 1) \notin WHITESPACE

\* C5: a word token that starts with an uppercase letter and is translated
\* comes out with its first letter in uppercase, and "Thanks a lot" converts
\* to "Chala thanks" under the default configuration.
C5_CapitalizationRestored ==
    /\ (pc = "done" /\ default_config /\ text = "Thanks a lot") => result = "Chala thanks"
    /\ (translated /\ Len(tokenize(text)) = Len(out)) =>
           \A i \in DOMAIN out :
               LET orig == tokenize(text)[i]
               IN  (is_word(orig) /\ isupper(Head(orig)) /\ out[i] # lower(orig))
                       => isupper(Head(out[i]))

\* C6: the postposition step rewrites the whitespace-delimited tokens that are
\* exactly "to", "in" or "with" and leaves every other token as it is.
C6_OnlyStandaloneTokens ==
    [][(pc = "postpositions" /\ add_postpositions) =>
          /\ Len(split(result')) = Len(split(result))
          /\ \A i \in DOMAIN split(result) :
                 split(result')[i] =
                     IF split(result)[i] = "to" THEN "ki"
                     ELSE IF split(result)[i] = "in" THEN "lo"
                     ELSE IF split(result)[i] = "with" THEN "tho"
                     ELSE split(result)[i]]_vars

\* C7: with the slang on, an input with a "?" whose translated text holds no
\* standalone "ra", "rey" or "bro" comes out with " ra" right before each "?",
\* and not with " ra" at the end.
C7_RaBeforeQuestionMark ==
    (pc = "done" /\ add_telangana_slang /\ Contains(text, "?")
        /\ ~search_word({"ra", "rey", "bro"}, styled_text)) =>
        /\ occurrences(" ra?", result) = occurrences("?", text)
        /\ ~endswith(result, " ra")

\* C8 as claimed: with the slang on and the polite ending off, every statement
\* of exactly three words and no question mark comes out ending with " ra".
C8_ThreeWordsGetRa ==
    (pc = "done" /\ add_telangana_slang /\ ~polite_mode
        /\ Len(split(text)) = 3 /\ ~Contains(text, "?")) =>
        endswith(result, " ra")

\* C8 as amended: with the slang on and the polite ending off, every statement
\* of exactly three words and no question mark whose translated text has at
\* most 7 whitespace-delimited words and holds no standalone "ra" or "rey"
\* comes out ending with " ra".
C8_ShortStatementGetsRa ==
    (pc = "done" /\ add_telangana_slang /\ ~polite_mode
        /\ Len(split(text)) = 3 /\ ~Contains(text, "?")) =>
        ((Len(split(styled_text)) <= SHORT_STATEMENT_WORDS
            /\ ~search_word({"ra", "rey"}, styled_text))
         => endswith(result, " ra"))

C8_Witness ==
    /\ pc = "done"
    /\ add_telangana_slang
    /\ ~polite_mode
    /\ telugu_strength = 0
    /\ text = "yes,no come yes,no"
    /\ Len(split(styled_text)) = SHORT_STATEMENT_WORDS
    /\ endswith(result, " come avunu \\1 ledu ra")

\* C9: at every strength, an input that holds a multiword key derived from a
\* verb of the verb bank as a whole phrase, no word of it in the keep-English
\* set, comes out with the key's dictionary value in place of the phrase.
C9_VerbPhrasesMatchedWhole ==
    (pc = "done" /\ ~is_blank(text)) =>
        \A k \in verb_phrase_keys \cap WordSpans(lower(text)) :
            ({split(k)[i] : i \in DOMAIN split(k)} \cap keep_english_set = {})
                => HasMatch(word_dict[k], result)

\* C10: under the default configuration an input that is exactly the phrase of
\* a phrase rule converts to the rule's replacement, up to the case of the
\* first letter.
C10_PhraseOutputUnchanged ==
    (pc = "done" /\ default_config) =>
        \A i \in DOMAIN PHRASES :
            text = PHRASES[i][1] => lower(result) = PHRASES[i][2]

=============================================================================
